---- MODULE Spec2Model ----
(***************************************************************************)
(* Model of the Sheduler of src/src/shed.rs: the shared state from which   *)
(* engines pull their work (get_job), into which discovered urls are fed   *)
(* (mark_urls / mark_url) and which detects that there is no more work.    *)
(***************************************************************************)
EXTENDS Integers, Sequences, FiniteSets, TLC

\* ------------------------------------------------------------------ bounds
NumEngines == 2
NumUrls == 2
MaxBatch == 2

EngineIds == 0 .. (NumEngines - 1)
Urls == 1 .. NumUrls
Batches == UNION {[1 .. n -> Urls] : n \in 0 .. MaxBatch}

\* ------------------------------------------------------------- data types
\* enum EngineState; Created is declared but no operation stores it
EngineState == {"Idle", "Work", "Created"}

\* Duration::from_millis, a Duration kept in milliseconds
Duration_from_millis_as_secs(millis) == millis * 1000

Duration_from_millis(millis) == millis

\* enum Job
Search(url) == [kind |-> "Search", url |-> url, millis |-> 0]

Idle(duration) == [kind |-> "Idle", url |-> 0, millis |-> duration]

Closed == [kind |-> "Closed", url |-> 0, millis |-> 0]

NoJob == [kind |-> "None", url |-> 0, millis |-> 0]

\* Sheduler::default() with State::default()
Default ==
    [engines |-> <<>>,
     state |-> [seen_list |-> {}, wait_list |-> <<>>],
     engines_stoped |-> FALSE]

\* ------------------------------------------------------------------ State
update_url_nodedup(st, url) ==
    [seen_list |-> st.seen_list \cup {url},
     wait_list |-> Append(st.wait_list, url)]

update_url_noinsert(st, url) ==
    IF url \notin st.seen_list
        THEN [seen_list |-> st.seen_list,
              wait_list |-> Append(st.wait_list, url)]
        ELSE st

update_url(st, url) ==
    IF url \notin st.seen_list
        THEN [seen_list |-> st.seen_list \cup {url},
              wait_list |-> Append(st.wait_list, url)]
        ELSE st

RECURSIVE update(_, _)
update(st, urls) ==
    IF urls = <<>> THEN st
    ELSE update(update_url(st, Head(urls)), Tail(urls))

\* --------------------------------------------------------------- Sheduler
is_closed_never(self) == FALSE

is_closed(self) == self.engines_stoped

close_noop(self) == self

close_toggle(self) == [self EXCEPT !.engines_stoped = ~@]

close(self) == [self EXCEPT !.engines_stoped = TRUE]

set_engine_state_noop(self, id, st) == self

set_engine_state_or_insert(self, id, st) ==
    [self EXCEPT !.engines =
        [i \in DOMAIN self.engines \cup {id} |->
            IF i \in DOMAIN self.engines THEN self.engines[i] ELSE st]]

set_engine_state_all(self, id, st) ==
    [self EXCEPT !.engines = [i \in DOMAIN self.engines \cup {id} |-> st]]

set_engine_state_created(self, id, st) ==
    [self EXCEPT !.engines =
        [i \in DOMAIN self.engines \cup {id} |->
            IF i # id THEN self.engines[i]
            ELSE IF id \in DOMAIN self.engines THEN st ELSE "Created"]]

set_engine_state(self, id, st) ==
    [self EXCEPT !.engines =
        [i \in DOMAIN self.engines \cup {id} |->
            IF i = id THEN st ELSE self.engines[i]]]

\* the condition of the second `if` of get_job
quiescent_any(self) ==
    /\ \E i \in DOMAIN self.engines : self.engines[i] = "Idle"
    /\ self.state.wait_list = <<>>

quiescent_nonempty(self) ==
    /\ DOMAIN self.engines # {}
    /\ \A i \in DOMAIN self.engines : self.engines[i] = "Idle"
    /\ self.state.wait_list = <<>>

quiescent_engines_only(self) ==
    \A i \in DOMAIN self.engines : self.engines[i] = "Idle"

quiescent(self) ==
    /\ \A i \in DOMAIN self.engines : self.engines[i] = "Idle"
    /\ self.state.wait_list = <<>>

\* Vec::pop: the last element, if any, and the shortened vector
pop_front(vec) ==
    IF vec = <<>> THEN [some |-> FALSE, item |-> 0, vec |-> vec]
    ELSE [some |-> TRUE, item |-> Head(vec), vec |-> Tail(vec)]

pop(vec) ==
    IF vec = <<>> THEN [some |-> FALSE, item |-> 0, vec |-> vec]
    ELSE [some |-> TRUE, item |-> vec[Len(vec)],
          vec |-> SubSeq(vec, 1, Len(vec) - 1)]

get_job(self, engine_id) ==
    IF is_closed(self) THEN [self |-> self, job |-> Closed]
    ELSE IF quiescent(self) THEN [self |-> close(self), job |-> Closed]
    ELSE LET url == pop(self.state.wait_list)
             popped == [self EXCEPT !.state.wait_list = url.vec]
         IN  IF url.some
                THEN [self |-> set_engine_state(popped, engine_id, "Work"),
                      job |-> Search(url.item)]
                ELSE [self |-> set_engine_state(popped, engine_id, "Idle"),
                      job |-> Idle(Duration_from_millis(5000))]

mark_urls(self, urls) == [self EXCEPT !.state = update(self.state, urls)]

mark_url(self, url) == [self EXCEPT !.state = update_url(self.state, url)]

\* ------------------------------------------------------------------ state
VARIABLES
    engines,        \* Sheduler.engines: engine id -> EngineState
    seen_list,      \* State.seen_list
    wait_list,      \* State.wait_list
    engines_stoped, \* Sheduler.engines_stoped
    last,           \* the last call: operation, engine id, number of urls,
                    \* result, and the Sheduler before the call
    searched,       \* url -> number of Job::Search results that carried it
    pushed,         \* every url pushed on wait_list, in push order
    polled,         \* engine ids that have called get_job
    served,         \* engine ids that got Job::Search or Job::Idle
    done_returned,  \* some get_job has returned Job::Closed
    close_called,   \* close has been called from outside
    pc,             \* engine loop: position of every engine
    fed,            \* engine loop: the start urls have been marked
    traced          \* whether the calls are recorded in `last`

vars == <<engines, seen_list, wait_list, engines_stoped, last, searched,
          pushed, polled, served, done_returned, close_called, pc, fed,
          traced>>

Self ==
    [engines |-> engines,
     state |-> [seen_list |-> seen_list, wait_list |-> wait_list],
     engines_stoped |-> engines_stoped]

InitWith(t) ==
    /\ traced = t
    /\ engines = Default.engines
    /\ seen_list = Default.state.seen_list
    /\ wait_list = Default.state.wait_list
    /\ engines_stoped = Default.engines_stoped
    /\ last = [op |-> "default", id |-> -1, n |-> 0, job |-> NoJob,
               pre |-> Default]
    /\ searched = [u \in Urls |-> 0]
    /\ pushed = <<>>
    /\ polled = {}
    /\ served = {}
    /\ done_returned = FALSE
    /\ close_called = FALSE
    /\ pc = [e \in EngineIds |-> "poll"]
    /\ fed = FALSE

Init == InitWith(TRUE)

\* the record of a call, when calls are recorded
Record(call) ==
    /\ last' = IF traced THEN call ELSE last
    /\ UNCHANGED traced

\* the Sheduler after a call
Store(new) ==
    /\ engines' = new.engines
    /\ seen_list' = new.state.seen_list
    /\ wait_list' = new.state.wait_list
    /\ engines_stoped' = new.engines_stoped

\* urls that a call pushed on wait_list (a call pops or pushes, never both)
Pushes(new) ==
    IF Len(new.state.wait_list) > Len(wait_list)
        THEN SubSeq(new.state.wait_list, Len(wait_list) + 1,
                    Len(new.state.wait_list))
        ELSE <<>>

CallGetJob(engine_id) ==
    LET r == get_job(Self, engine_id) IN
    /\ Store(r.self)
    /\ Record([op |-> "get_job", id |-> engine_id, n |-> 0,
                job |-> r.job, pre |-> Self])
    /\ searched' = IF r.job.kind = "Search"
                      THEN [searched EXCEPT ![r.job.url] = @ + 1]
                      ELSE searched
    /\ polled' = polled \cup {engine_id}
    /\ served' = IF r.job.kind \in {"Search", "Idle"}
                    THEN served \cup {engine_id} ELSE served
    /\ done_returned' = (done_returned \/ r.job.kind = "Closed")
    /\ UNCHANGED <<pushed, close_called>>

CallMarkUrls(urls) ==
    LET new == mark_urls(Self, urls) IN
    /\ Store(new)
    /\ Record([op |-> "mark_urls", id |-> -1, n |-> Len(urls), job |-> NoJob,
                pre |-> Self])
    /\ pushed' = pushed \o Pushes(new)
    /\ UNCHANGED <<searched, polled, served, done_returned, close_called>>

CallMarkUrl(url) ==
    LET new == mark_url(Self, url) IN
    /\ Store(new)
    /\ Record([op |-> "mark_url", id |-> -1, n |-> 1, job |-> NoJob,
                pre |-> Self])
    /\ pushed' = pushed \o Pushes(new)
    /\ UNCHANGED <<searched, polled, served, done_returned, close_called>>

\* ------------------------------------------- any caller, any order (Spec)
GetJob(engine_id) == CallGetJob(engine_id) /\ UNCHANGED <<pc, fed>>

MarkUrls(urls) == CallMarkUrls(urls) /\ UNCHANGED <<pc, fed>>

MarkUrl(url) == CallMarkUrl(url) /\ UNCHANGED <<pc, fed>>

IsClosed ==
    /\ Record([op |-> "is_closed", id |-> -1, n |-> 0,
                job |-> [NoJob EXCEPT !.kind =
                            IF is_closed(Self) THEN "true" ELSE "false"],
                pre |-> Self])
    /\ UNCHANGED <<engines, seen_list, wait_list, engines_stoped, searched,
                   pushed, polled, served, done_returned, close_called,
                   pc, fed>>

Close ==
    /\ Store(close(Self))
    /\ Record([op |-> "close", id |-> -1, n |-> 0, job |-> NoJob,
                pre |-> Self])
    /\ close_called' = TRUE
    /\ UNCHANGED <<searched, pushed, polled, served, done_returned, pc, fed>>

Poll == \E e \in EngineIds : GetJob(e)

Next ==
    \/ Poll
    \/ \E urls \in Batches : MarkUrls(urls)
    \/ \E url \in Urls : MarkUrl(url)
    \/ IsClosed
    \/ Close

Spec == Init /\ [][Next]_vars

\* engines keep asking for jobs
FairSpec == InitWith(FALSE) /\ [][Next]_vars /\ WF_vars(Poll)

\* ------------------------------- engines that follow their loop (LoopSpec)
\* the start urls are marked once, by the code that creates the engines
Feed(urls) ==
    /\ ~fed
    /\ fed' = TRUE
    /\ CallMarkUrls(urls)
    /\ UNCHANGED pc

\* an engine asks for a job and goes where the answer sends it
EnginePoll(e) ==
    /\ pc[e] = "poll"
    /\ CallGetJob(e)
    /\ LET kind == get_job(Self, e).job.kind IN
       pc' = [pc EXCEPT ![e] = CASE kind = "Search" -> "search"
                                 [] kind = "Idle" -> "sleep"
                                 [] OTHER -> "closed"]
    /\ UNCHANGED fed

\* an engine finishes its search and marks the urls it has found
EngineReport(e) ==
    /\ pc[e] = "search"
    /\ \E urls \in Batches : CallMarkUrls(urls)
    /\ pc' = [pc EXCEPT ![e] = "poll"]
    /\ UNCHANGED fed

\* an engine has slept for the duration of Job::Idle
EngineWake(e) ==
    /\ pc[e] = "sleep"
    /\ pc' = [pc EXCEPT ![e] = "poll"]
    /\ UNCHANGED <<engines, seen_list, wait_list, engines_stoped, last,
                   searched, pushed, polled, served, done_returned,
                   close_called, fed, traced>>

EngineStep(e) == EnginePoll(e) \/ EngineReport(e) \/ EngineWake(e)

LoopNext ==
    \/ \E urls \in Batches : Feed(urls)
    \/ \E e \in EngineIds : EnginePoll(e)
    \/ \E e \in EngineIds : EngineReport(e)
    \/ \E e \in EngineIds : EngineWake(e)

\* every engine is scheduled again and again, none fails
LoopSpec ==
    Init /\ [][LoopNext]_vars /\ \A e \in EngineIds : WF_vars(EngineStep(e))

\* ---------------------------------------------------------------- helpers
InWaitList(s, u) == \E i \in 1 .. Len(s.state.wait_list) : s.state.wait_list[i] = u

AllIdle(s) == \A i \in DOMAIN s.engines : s.engines[i] = "Idle"

SomeWork(s) == \E i \in DOMAIN s.engines : s.engines[i] = "Work"

PushIndex(u) == CHOOSE i \in 1 .. Len(pushed) : pushed[i] = u

\* the last call was a get_job on a Sheduler that was not closed
OpenPoll == last.op = "get_job" /\ ~last.pre.engines_stoped

\* ----------------------------------------------------------------- claims

\* C1: once a get_job has returned Job::Closed, or close has been called,
\* every later get_job returns Job::Closed, for every engine id, whatever
\* urls are marked in between.
C1_ClosedIsAbsorbing ==
    [][((done_returned \/ close_called) /\ last'.op = "get_job")
        => last'.job = Closed]_vars

\* C1 witness: after a closure by quiescence a new url was marked, and an
\* engine id that was never given a job asks for one and gets Job::Closed.
C1_Witness ==
    /\ last.op = "get_job" /\ last.job = Closed
    /\ last.pre.engines_stoped /\ ~close_called
    /\ last.pre.state.wait_list # <<>>
    /\ last.id \notin served

\* C2: no url is carried by more than one Job::Search.
C2_SearchedAtMostOnce == \A u \in Urls : searched[u] <= 1

\* C2 witness: the only url marked so far has been handed out, and a batch
\* of two urls (that url twice) is marked on the still open Sheduler.
C2_Witness ==
    /\ last.op = "mark_urls" /\ last.n = 2
    /\ Cardinality(seen_list) = 1
    /\ \A u \in seen_list : searched[u] = 1
    /\ last.pre.state.seen_list = seen_list
    /\ ~engines_stoped

\* C3: a get_job on an open Sheduler closes it and returns Job::Closed if and
\* only if every engine in the table is Idle and wait_list is empty at the
\* call; the table of an open Sheduler holds exactly the ids that have polled.
C3_QuiescenceExact ==
    /\ OpenPoll =>
        /\ (last.job = Closed) <=>
               (AllIdle(last.pre) /\ last.pre.state.wait_list = <<>>)
        /\ engines_stoped <=>
               (AllIdle(last.pre) /\ last.pre.state.wait_list = <<>>)
    /\ ~engines_stoped => DOMAIN engines = polled

\* C3 witness: a get_job closes the Sheduler when two engines are in the
\* table, all Idle, after urls have been handed out.
C3_Witness ==
    /\ OpenPoll /\ last.job = Closed
    /\ Cardinality(DOMAIN last.pre.engines) >= 2
    /\ \E u \in Urls : searched[u] = 1

\* C4: a Job::Search carries the url that was pushed last among the urls of
\* wait_list at the call.
C4_Lifo ==
    (last.op = "get_job" /\ last.job.kind = "Search") =>
        /\ InWaitList(last.pre, last.job.url)
        /\ \A u \in Urls : InWaitList(last.pre, u)
                => PushIndex(u) <= PushIndex(last.job.url)

\* C4 witness: a Job::Search taken from a wait_list of two or more urls; it
\* carries the url pushed last, which is not the first of wait_list and has
\* the smaller number.
C4_Witness ==
    /\ last.op = "get_job" /\ last.job.kind = "Search"
    /\ Len(last.pre.state.wait_list) >= 2
    /\ last.job.url = pushed[Len(pushed)]
    /\ last.job.url < last.pre.state.wait_list[1]

\* C5: the first get_job on a Sheduler with no marked url and no earlier
\* get_job returns Job::Closed and closes the Sheduler, for any engine id.
C5_EmptyShedulerCloses ==
    (last.op = "get_job" /\ last.pre = Default /\ polled = {last.id}
        /\ pushed = <<>>)
        => (last.job = Closed /\ engines_stoped)

\* C5 witness: that first get_job, made by an engine id other than 0.
C5_Witness ==
    /\ last.op = "get_job" /\ last.pre = Default /\ polled = {last.id}
    /\ pushed = <<>> /\ last.id # 0
    /\ last.job = Closed

\* C7: engines_stoped never goes back to false, and close sets it.
C7_ClosedMonotonic ==
    [][(engines_stoped => engines_stoped')
        /\ (last'.op = "close" => engines_stoped')]_vars

\* C7 witness: close was called on an open Sheduler with work waiting, urls
\* were marked afterwards and the Sheduler is still closed.
C7_Witness ==
    /\ close_called /\ ~done_returned /\ engines_stoped
    /\ last.op = "mark_urls" /\ last.pre.engines_stoped
    /\ Len(wait_list) > Len(last.pre.state.wait_list)

\* C8: every Job::Idle carries 5000 ms.
C8_IdleDelay == last.job.kind = "Idle" => last.job.millis = 5000

\* C8 witness: a Job::Idle given to an engine that was Idle already.
C8_Witness ==
    /\ last.op = "get_job" /\ last.job.kind = "Idle"
    /\ last.id \in DOMAIN last.pre.engines
    /\ last.pre.engines[last.id] = "Idle"

\* C6 as stated: with engines that keep asking for jobs, every url that is
\* in wait_list is eventually carried by a Job::Search.
C6_EveryWaitingUrlSearched ==
    \A u \in Urls : InWaitList(Self, u) ~> (searched[u] >= 1)

\* C6 amended: with engines that keep asking for jobs, every url that is in
\* wait_list while the Sheduler is open is eventually carried by a
\* Job::Search unless close is called, and no get_job closes an open
\* Sheduler while a url is in wait_list.
C6_OpenWaitingUrlSearched ==
    /\ \A u \in Urls : (InWaitList(Self, u) /\ ~engines_stoped)
            ~> (searched[u] >= 1 \/ close_called)
    /\ [][(~engines_stoped /\ engines_stoped' /\ ~close_called')
            => wait_list = <<>>]_vars

\* C6 witness: every url was marked and each was carried by one Job::Search,
\* no url is waiting, and the Sheduler is open with an engine at work.
C6_Witness ==
    /\ \A u \in Urls : searched[u] = 1
    /\ wait_list = <<>> /\ SomeWork(Self)
    /\ ~close_called /\ ~engines_stoped

\* C9: with engines that follow their loop and are all scheduled fairly, the
\* Sheduler eventually is closed and every engine has got Job::Closed.
C9_LoopTerminates ==
    <>(engines_stoped /\ \A e \in EngineIds : pc[e] = "closed")

\* C9 witness: all engines have got Job::Closed after every url was handed
\* out and every engine had been given a job or a delay.
C9_Witness ==
    /\ engines_stoped /\ \A e \in EngineIds : pc[e] = "closed"
    /\ \A u \in Urls : searched[u] = 1
    /\ served = EngineIds

\* C10 as stated: every engine id that has called get_job is in the table.
C10_PolledIsInTable == polled \subseteq DOMAIN engines

\* C10 amended: the table holds exactly the engine ids that have been given
\* a Job::Search or a Job::Idle; an id that has never called get_job, or
\* whose calls all returned Job::Closed, is not in it.
C10_ServedIsInTable ==
    /\ DOMAIN engines = served
    /\ served \subseteq polled
    /\ (last.op = "get_job" /\ last.job = Closed)
            => DOMAIN engines = DOMAIN last.pre.engines

\* C10 witness: an engine's first get_job returned a Job::Search and put it
\* in the table, while another id has never polled and is absent.
C10_Witness ==
    /\ last.op = "get_job" /\ last.job.kind = "Search"
    /\ last.id \notin DOMAIN last.pre.engines
    /\ last.id \in DOMAIN engines
    /\ \E e \in EngineIds : e \notin polled /\ e \notin DOMAIN engines

\* C11: wait_list holds only urls of seen_list and no url twice, no url is
\* pushed twice, and a url that a Job::Search has carried is never in
\* wait_list again, whatever is marked later.
C11_WaitListOnce ==
    /\ \A i \in 1 .. Len(wait_list) : wait_list[i] \in seen_list
    /\ \A i, j \in 1 .. Len(wait_list) : wait_list[i] = wait_list[j] => i = j
    /\ \A i, j \in 1 .. Len(pushed) : pushed[i] = pushed[j] => i = j
    /\ \A u \in Urls : searched[u] >= 1 => ~InWaitList(Self, u)
    /\ \A u \in Urls : searched[u] >= 1 =>
            \A urls \in Batches : ~InWaitList(mark_urls(Self, urls), u)

\* C11 witness: every url has been handed out, urls are marked again on the
\* open Sheduler and wait_list stays empty.
C11_Witness ==
    /\ last.op = "mark_urls" /\ last.n >= 1
    /\ \A u \in Urls : searched[u] = 1
    /\ wait_list = <<>> /\ ~engines_stoped

\* C12: no call removes a url from seen_list, and after mark_urls(urls) and
\* mark_url(url) the urls marked are in seen_list.
C12_SeenGrows ==
    /\ [][seen_list \subseteq seen_list']_vars
    /\ [](\A urls \in Batches :
            /\ seen_list \subseteq mark_urls(Self, urls).state.seen_list
            /\ \A i \in 1 .. Len(urls) :
                    urls[i] \in mark_urls(Self, urls).state.seen_list)
    /\ [](\A url \in Urls : url \in mark_url(Self, url).state.seen_list)

\* C12 witness: two urls were marked, both were waiting, and the get_job
\* that has taken one of them has left both in seen_list.
C12_Witness ==
    /\ last.op = "get_job" /\ last.job.kind = "Search"
    /\ Cardinality(seen_list) = 2
    /\ Len(pushed) = 2 /\ Len(last.pre.state.wait_list) = 2

\* C13: a get_job that returns Job::Search leaves its caller recorded as
\* Work, one that returns Job::Idle leaves it recorded as Idle and found
\* wait_list empty; in both cases the table gains no other id and the state
\* of every other engine is as it was.
C13_OnlyCallerUpdated ==
    (last.op = "get_job" /\ last.job.kind \in {"Search", "Idle"}) =>
        /\ DOMAIN engines = DOMAIN last.pre.engines \cup {last.id}
        /\ engines[last.id] = IF last.job.kind = "Search" THEN "Work" ELSE "Idle"
        /\ last.job.kind = "Idle" => last.pre.state.wait_list = <<>>
        /\ \A i \in DOMAIN last.pre.engines :
                i # last.id => engines[i] = last.pre.engines[i]

\* C13 witness: an Idle engine is given a Job::Search while another engine
\* is recorded as Work and stays so.
C13_Witness ==
    /\ last.op = "get_job" /\ last.job.kind = "Search"
    /\ last.id \in DOMAIN last.pre.engines
    /\ last.pre.engines[last.id] = "Idle"
    /\ \E i \in DOMAIN engines : i # last.id /\ engines[i] = "Work"

\* C14 as stated: whenever get_job returns Job::Idle, an engine other than
\* the caller is recorded as Work at the call.
C14_OtherEngineWorks ==
    (last.op = "get_job" /\ last.job.kind = "Idle") =>
        \E i \in DOMAIN last.pre.engines :
            i # last.id /\ last.pre.engines[i] = "Work"

\* C14 amended: whenever get_job returns Job::Idle, wait_list is empty and
\* some engine, which may be the caller itself, is recorded as Work at the
\* call.
C14_SomeEngineWorks ==
    (last.op = "get_job" /\ last.job.kind = "Idle") =>
        /\ last.pre.state.wait_list = <<>>
        /\ \E i \in DOMAIN last.pre.engines : last.pre.engines[i] = "Work"

\* C14 witness: the only engine of the table is given Job::Idle while it is
\* itself the one recorded as Work.
C14_Witness ==
    /\ last.op = "get_job" /\ last.job.kind = "Idle"
    /\ DOMAIN last.pre.engines = {last.id}
    /\ last.pre.engines[last.id] = "Work"

\* C15: a get_job on a closed Sheduler returns Job::Closed and leaves
\* seen_list, wait_list, the table and the flag as they were.
C15_ClosedPollChangesNothing ==
    (last.op = "get_job" /\ last.pre.engines_stoped) =>
        (last.job = Closed /\ Self = last.pre)

\* C15 witness: a get_job by an id that is not in the table, on a closed
\* Sheduler whose wait_list holds a url.
C15_Witness ==
    /\ last.op = "get_job" /\ last.pre.engines_stoped
    /\ wait_list # <<>> /\ engines # <<>>
    /\ last.id \notin DOMAIN engines

\* C16: mark_urls and mark_url leave the table and the flag alone, and leave
\* the whole Sheduler alone when every url is in seen_list already;
\* is_closed changes nothing and close changes the flag only.
C16_FrameOfMarkAndClose ==
    /\ last.op \in {"mark_urls", "mark_url"} =>
        /\ engines = last.pre.engines
        /\ engines_stoped = last.pre.engines_stoped
    /\ last.op = "is_closed" =>
        /\ Self = last.pre
        /\ last.job.kind = IF engines_stoped THEN "true" ELSE "false"
    /\ last.op = "close" => Self = [last.pre EXCEPT !.engines_stoped = TRUE]
    /\ \A urls \in Batches :
            (\A i \in 1 .. Len(urls) : urls[i] \in seen_list)
                => mark_urls(Self, urls) = Self
    /\ \A url \in seen_list : mark_url(Self, url) = Self

\* C16 witness: a batch of two urls is marked on an open Sheduler that has
\* seen every url, with one url waiting and an engine at work, and nothing
\* changes.
C16_Witness ==
    /\ last.op = "mark_urls" /\ last.n = 2
    /\ seen_list = Urls /\ last.pre = Self
    /\ wait_list # <<>> /\ SomeWork(Self) /\ ~engines_stoped

\* C17: with engines that follow their loop, an engine that holds a
\* Job::Search and has not yet asked for its next job is recorded as Work,
\* no get_job closes the Sheduler while there is such an engine, and none
\* is left once the Sheduler is closed.
C17_NoClosureDuringSearch ==
    /\ [](\A e \in EngineIds : pc[e] = "search" =>
            (e \in DOMAIN engines /\ engines[e] = "Work" /\ ~engines_stoped))
    /\ [][(~engines_stoped /\ engines_stoped')
            => \A e \in EngineIds : pc[e] # "search" /\ pc'[e] # "search"]_vars

\* C17 witness: a get_job has just closed the Sheduler by quiescence after
\* urls were handed out and reported on, with two engines in the table and
\* none of them searching.
C17_Witness ==
    /\ OpenPoll /\ last.job = Closed /\ engines_stoped
    /\ Cardinality(DOMAIN engines) >= 2
    /\ \E u \in Urls : searched[u] = 1
    /\ \A e \in EngineIds : pc[e] \in {"poll", "sleep", "closed"}

\* C18: while an engine is recorded as Work and does not call get_job, it
\* stays recorded as Work, no get_job of another engine closes the Sheduler
\* (only close does), and on the open Sheduler every such get_job returns
\* Job::Search or Job::Idle.
C18_HungEngineKeepsOpen ==
    [][\A i \in DOMAIN engines :
        (engines[i] = "Work" /\ ~(last'.op = "get_job" /\ last'.id = i)) =>
            /\ i \in DOMAIN engines' /\ engines'[i] = "Work"
            /\ (~engines_stoped /\ engines_stoped') => last'.op = "close"
            /\ (~engines_stoped /\ last'.op = "get_job")
                    => last'.job.kind \in {"Search", "Idle"}]_vars

\* C18 witness: every url has been handed out, one engine is still recorded
\* as Work, and another engine that was Idle already is given Job::Idle
\* again on the open Sheduler.
C18_Witness ==
    /\ last.op = "get_job" /\ last.job.kind = "Idle" /\ ~engines_stoped
    /\ last.id \in DOMAIN last.pre.engines
    /\ last.pre.engines[last.id] = "Idle"
    /\ \E i \in DOMAIN engines : i # last.id /\ engines[i] = "Work"
    /\ \A u \in Urls : searched[u] = 1

\* C19: every entry of the table is Idle or Work, never Created; no call
\* removes an entry; an engine whose first get_job finds nothing waiting is
\* recorded as Idle at once.
C19_TableStates ==
    /\ [](\A i \in DOMAIN engines : engines[i] \in EngineState \ {"Created"})
    /\ []((last.op = "get_job" /\ last.job.kind = "Idle"
            /\ last.id \notin DOMAIN last.pre.engines)
                => engines[last.id] = "Idle")
    /\ [][DOMAIN engines \subseteq DOMAIN engines']_vars

\* C19 witness: the first get_job of an engine finds wait_list empty and
\* another engine at work: the engine enters the table as Idle.
C19_Witness ==
    /\ last.op = "get_job" /\ last.job.kind = "Idle"
    /\ last.id \notin DOMAIN last.pre.engines
    /\ engines[last.id] = "Idle"
    /\ SomeWork(last.pre)

====
